---- MODULE Spec2Model ----
(***************************************************************************)
(* A model of orchestrator-rust: validation and construction of a render   *)
(* job, the sequential and timeline renderers, the ADSR envelope, the sine *)
(* oscillator and the WAV container encoder.                               *)
(*                                                                         *)
(* f64 values are modelled as exact rationals <<n, d>> in lowest terms     *)
(* with d > 0, extended with the IEEE special values <<1, 0>> (+inf),      *)
(* <<-1, 0>> (-inf) and <<0, 0>> (NaN).  Rounding error of f64 arithmetic  *)
(* is not modelled.  sin, tanh and 2^(k/12) have irrational values; they   *)
(* are modelled by rational approximations that are stated where they are  *)
(* defined.                                                                *)
(***************************************************************************)
EXTENDS Integers, Sequences, FiniteSets, TLC

(***************************************************************************)
(* f64 arithmetic                                                          *)
(***************************************************************************)
Abs(x) == IF x < 0 THEN -x ELSE x

Sign(x) == IF x < 0 THEN -1 ELSE IF x = 0 THEN 0 ELSE 1

RECURSIVE Gcd(_, _)
Gcd(a, b) == IF b = 0 THEN a ELSE Gcd(b, a % b)

\* The f64 with value n / d (d may be negative or 0: x/0 is +-inf, 0/0 is NaN).
Rat(n, d) ==
  IF d = 0 THEN <<Sign(n), 0>>
  ELSE LET g == Gcd(Abs(n), Abs(d))
       IN  <<(Sign(d) * n) \div g, Abs(d) \div g>>

R(i) == <<i, 1>>

PosInf == <<1, 0>>
NegInf == <<-1, 0>>
NaN == <<0, 0>>

IsFinite(x) == x[2] # 0
IsNaN(x) == x = NaN

RNeg(x) == <<-x[1], x[2]>>

RAdd(x, y) ==
  IF IsFinite(x) /\ IsFinite(y)
    THEN LET g == Gcd(x[2], y[2])
         IN  Rat(x[1] * (y[2] \div g) + y[1] * (x[2] \div g), (x[2] \div g) * y[2])
  ELSE IF IsNaN(x) \/ IsNaN(y) THEN NaN
  ELSE IF IsFinite(x) THEN y
  ELSE IF IsFinite(y) THEN x
  ELSE IF x = y THEN x ELSE NaN

RSub(x, y) == RAdd(x, RNeg(y))

RMul(x, y) ==
  IF IsNaN(x) \/ IsNaN(y) THEN NaN ELSE Rat(x[1] * y[1], x[2] * y[2])

RDiv(x, y) ==
  IF IsNaN(x) \/ IsNaN(y) THEN NaN
  ELSE IF ~IsFinite(x) /\ ~IsFinite(y) THEN NaN
  ELSE IF ~IsFinite(y) THEN R(0)
  ELSE IF ~IsFinite(x) THEN <<(IF y[1] < 0 THEN -1 ELSE 1) * x[1], 0>>
  ELSE Rat(x[1] * y[2], x[2] * y[1])

\* Comparisons: every comparison with NaN is false.
RLt(x, y) ==
  /\ ~IsNaN(x) /\ ~IsNaN(y)
  /\ IF IsFinite(x) /\ IsFinite(y)
       THEN LET g == Gcd(x[2], y[2])
            IN  x[1] * (y[2] \div g) < y[1] * (x[2] \div g)
     ELSE IF IsFinite(x) THEN y = PosInf
     ELSE IF IsFinite(y) THEN x = NegInf
     ELSE x = NegInf /\ y = PosInf

RGt(x, y) == RLt(y, x)

RLe(x, y) == ~IsNaN(x) /\ ~IsNaN(y) /\ (x = y \/ RLt(x, y))

RGe(x, y) == RLe(y, x)

\* f64::max: the other operand when one is NaN.
RMax(x, y) == IF IsNaN(x) THEN y ELSE IF IsNaN(y) THEN x ELSE IF RLt(x, y) THEN y ELSE x

\* f64::clamp(lo, hi): NaN stays NaN.
RClamp(x, lo, hi) == IF RLt(x, lo) THEN lo ELSE IF RGt(x, hi) THEN hi ELSE x

\* Truncation toward zero of a finite value.
Trunc(x) == IF x[1] >= 0 THEN x[1] \div x[2] ELSE -((-x[1]) \div x[2])

\* f64::ceil of a finite value, as an integer.
CeilInt(x) == -((-x[1]) \div x[2])

\* f64::ceil: the special values are kept.
RCeil(x) == IF IsFinite(x) THEN R(CeilInt(x)) ELSE x

I16_MIN == -32768
I16_MAX == 32767
\* The largest count the model lets a cast produce; stands for u32::MAX and
\* usize::MAX, which no run of the model comes near.
CastMax == 1000000

\* `x as i16`: truncates toward zero, saturates, NaN gives 0.
AsI16(x) ==
  IF IsNaN(x) THEN 0
  ELSE IF x = PosInf THEN I16_MAX
  ELSE IF x = NegInf THEN I16_MIN
  ELSE LET t == Trunc(x)
       IN  IF t > I16_MAX THEN I16_MAX ELSE IF t < I16_MIN THEN I16_MIN ELSE t

\* `x as u32` and `x as usize`: truncates toward zero, saturates (negative
\* values and NaN give 0).
AsUnsigned(x) ==
  IF IsNaN(x) \/ x = NegInf THEN 0
  ELSE IF x = PosInf THEN CastMax
  ELSE LET t == Trunc(x)
       IN  IF t < 0 THEN 0 ELSE IF t > CastMax THEN CastMax ELSE t

(***************************************************************************)
(* Results and errors (errors.rs)                                          *)
(***************************************************************************)
Ok(v) == [ok |-> TRUE, val |-> v]

Err(e) == [ok |-> FALSE, err |-> e]

InvalidNoteId(id) == <<"InvalidNoteId", id>>
InvalidBpm(bpm) == <<"InvalidBpm", bpm>>
InvalidOctave(octave) == <<"InvalidOctave", octave>>
InvalidAmplitude(amplitude) == <<"InvalidAmplitude", amplitude>>
EmptyNotes == <<"EmptyNotes">>
\* The message is kept as the values the format string shows.
InvalidControlPoints(msg) == <<"InvalidControlPoints", msg>>

Unit == <<>>
None == [some |-> FALSE]
Some(v) == [some |-> TRUE, val |-> v]

(***************************************************************************)
(* validation.rs                                                           *)
(***************************************************************************)
validate_bpm(bpm) == IF bpm = 0 THEN Err(InvalidBpm(bpm)) ELSE Ok(Unit)

\* Note and TimelineNote are validated by the same three checks, in this
\* order.
\* A variant whose id check is off by one.
validate_note_off_by_one(note) ==
  IF note.id > 12 THEN Err(InvalidNoteId(note.id))
  ELSE IF note.octave > 8 THEN Err(InvalidOctave(note.octave))
  ELSE IF RLt(note.amplitude, R(0)) \/ RGt(note.amplitude, R(1))
    THEN Err(InvalidAmplitude(note.amplitude))
  ELSE Ok(Unit)

validate_note(note) ==
  IF note.id > 11 THEN Err(InvalidNoteId(note.id))
  ELSE IF note.octave > 8 THEN Err(InvalidOctave(note.octave))
  ELSE IF RLt(note.amplitude, R(0)) \/ RGt(note.amplitude, R(1))
    THEN Err(InvalidAmplitude(note.amplitude))
  ELSE Ok(Unit)

validate_timeline_note(note) ==
  IF note.id > 11 THEN Err(InvalidNoteId(note.id))
  ELSE IF note.octave > 8 THEN Err(InvalidOctave(note.octave))
  ELSE IF RLt(note.amplitude, R(0)) \/ RGt(note.amplitude, R(1))
    THEN Err(InvalidAmplitude(note.amplitude))
  ELSE Ok(Unit)

\* `for note in notes.iter() { validate_note(note)?; }` from index k on.
RECURSIVE validate_each_note(_, _)
validate_each_note(notes, k) ==
  IF k > Len(notes) THEN Ok(Unit)
  ELSE IF ~validate_note(notes[k]).ok THEN validate_note(notes[k])
  ELSE validate_each_note(notes, k + 1)

validate_notes(notes) ==
  IF Len(notes) = 0 THEN Err(EmptyNotes) ELSE validate_each_note(notes, 1)

RECURSIVE validate_each_timeline_note(_, _)
validate_each_timeline_note(notes, k) ==
  IF k > Len(notes) THEN Ok(Unit)
  ELSE IF ~validate_timeline_note(notes[k]).ok THEN validate_timeline_note(notes[k])
  ELSE validate_each_timeline_note(notes, k + 1)

validate_timeline_notes(notes) ==
  IF Len(notes) = 0 THEN Err(EmptyNotes) ELSE validate_each_timeline_note(notes, 1)

\* The range loop of validate_control_points from (1-based) index k on; the
\* message holds the 0-based index and the value.
RECURSIVE validate_each_point(_, _)
validate_each_point(points, k) ==
  IF k > Len(points) THEN Ok(Unit)
  ELSE IF RLt(points[k], R(-1)) \/ RGt(points[k], R(1))
    THEN Err(InvalidControlPoints(<<"range", k - 1, points[k]>>))
  ELSE validate_each_point(points, k + 1)

\* A variant that only requires at least four control points.
validate_control_points_at_least(points) ==
  IF Len(points) < 4 THEN Err(InvalidControlPoints(<<"count", Len(points)>>))
  ELSE validate_each_point(points, 1)

validate_control_points(points) ==
  IF Len(points) # 4 THEN Err(InvalidControlPoints(<<"count", Len(points)>>))
  ELSE validate_each_point(points, 1)

(***************************************************************************)
(* Pitch model: Note::frequency, TimelineNote::frequency                   *)
(***************************************************************************)
RECURSIVE Pow2(_)
Pow2(e) == IF e = 0 THEN R(1) ELSE IF e > 0 THEN RMul(R(2), Pow2(e - 1))
                                   ELSE RDiv(Pow2(e + 1), R(2))

\* 2^(j/12) for j in 0..11, rounded to two decimals (the exact values are
\* irrational for j # 0).
SemitoneRatio(j) ==
  Rat(<<100, 106, 112, 119, 126, 133, 141, 150, 159, 168, 178, 189>>[j + 1], 100)

\* (2_f64).powf(k / 12) for an integer k: the whole octaves exactly, the
\* remaining semitones by SemitoneRatio.
PowTwelfth(k) == RMul(Pow2(k \div 12), SemitoneRatio(k % 12))

frequency(note) ==
  IF note.id > 11 THEN Err(InvalidNoteId(note.id))
  ELSE Ok(RMul(R(440), PowTwelfth((note.id - 9) + 12 * (note.octave - 4))))

(***************************************************************************)
(* oscillator.rs                                                           *)
(***************************************************************************)
PCM_BIT_RANGE == 32767

\* The fractional part of a finite non-negative value.
Frac(x) == Rat(x[1] % x[2], x[2])

\* Bhaskara's approximation of sin on a half turn, u in [0, 1] the fraction
\* of the half turn: 16u(1-u) / (5 - 4u(1-u)); exact at 0, 1/6, 1/2, 5/6, 1.
HalfTurnSin(u) ==
  LET w == RMul(u, RSub(R(1), u))
  IN  RDiv(RMul(R(16), w), RSub(R(5), RMul(R(4), w)))

\* sin(2 pi t) for a finite t >= 0 in turns, to three decimals toward zero.
SinTurns(t) ==
  LET c == Frac(t)
      s == IF RLe(c, Rat(1, 2)) THEN HalfTurnSin(RMul(R(2), c))
           ELSE RNeg(HalfTurnSin(RSub(RMul(R(2), c), R(1))))
  IN  Rat(Trunc(RMul(R(1000), s)), 1000)

\* SinOscillator::sample: x = 2 pi frequency sample_index / sample_rate.
SinSample(osc, sample_index) ==
  RMul(osc.amplitude,
       SinTurns(RDiv(RMul(osc.frequency, R(sample_index)), R(osc.sample_rate))))

\* A variant without the clamp.
SinPcmSample_unclamped(osc, sample_index) ==
  AsI16(RMul(SinSample(osc, sample_index), R(PCM_BIT_RANGE)))

\* SinOscillator::pcm_sample
SinPcmSample(osc, sample_index) ==
  AsI16(RMul(RClamp(SinSample(osc, sample_index), R(-1), R(1)), R(PCM_BIT_RANGE)))

\* BezierOscillator::new: the four control scalars are checked again at
\* construction of every oscillator.
BezierOscillatorNew(freq, amplitude, sample_rate, control_points) ==
  IF ~validate_control_points(control_points).ok
    THEN validate_control_points(control_points)
  ELSE Ok([frequency |-> freq, amplitude |-> amplitude,
           sample_rate |-> sample_rate, control_points |-> control_points])

\* The cubic Bezier curve through the four scalars at cycle position c in
\* [0, 1), to three decimals toward zero.
BezierCurve(p, c) ==
  LET d == RSub(R(1), c)
      b == RAdd(RAdd(RMul(RMul(d, RMul(d, d)), p[1]),
                     RMul(RMul(R(3), RMul(RMul(d, d), c)), p[2])),
                RAdd(RMul(RMul(R(3), RMul(d, RMul(c, c))), p[3]),
                     RMul(RMul(c, RMul(c, c)), p[4])))
  IN  Rat(Trunc(RMul(R(1000), b)), 1000)

\* BezierOscillator::sample: the sine's phase progression, shaped by the curve.
BezierSample(osc, sample_index) ==
  RMul(osc.amplitude,
       BezierCurve(osc.control_points,
                   Frac(RDiv(RMul(osc.frequency, R(sample_index)), R(osc.sample_rate)))))

\* BezierOscillator::pcm_sample
BezierPcmSample(osc, sample_index) ==
  AsI16(RMul(RClamp(BezierSample(osc, sample_index), R(-1), R(1)), R(PCM_BIT_RANGE)))

(***************************************************************************)
(* adsr.rs                                                                 *)
(***************************************************************************)
ADSREnvelopeNew(attack, decay, sustain, release, sample_rate, raw_duration_in_seconds) ==
  [attack |-> attack, decay |-> decay, sustain |-> sustain, release |-> release,
   sample_rate |-> sample_rate, current_state |-> "Attack",
   current_factor |-> R(0), raw_duration_in_seconds |-> raw_duration_in_seconds]

\* A variant whose Release ends with the release time: afterwards the state is
\* chosen among the other three again.
determine_state_release_window(env, sample_index) ==
  IF /\ sample_index > AsUnsigned(RMul(env.raw_duration_in_seconds, R(env.sample_rate)))
     /\ RLe(R(sample_index),
            RMul(RAdd(env.raw_duration_in_seconds, env.release), R(env.sample_rate)))
    THEN "Release"
  ELSE IF sample_index < AsUnsigned(RMul(env.attack, R(env.sample_rate)))
    THEN "Attack"
  ELSE IF sample_index < AsUnsigned(RMul(RAdd(env.attack, env.decay), R(env.sample_rate)))
    THEN "Decay"
  ELSE "Sustain"

\* A variant that tests for Attack before Release.
determine_state_attack_first(env, sample_index) ==
  IF sample_index < AsUnsigned(RMul(env.attack, R(env.sample_rate)))
    THEN "Attack"
  ELSE IF sample_index > AsUnsigned(RMul(env.raw_duration_in_seconds, R(env.sample_rate)))
    THEN "Release"
  ELSE IF sample_index < AsUnsigned(RMul(RAdd(env.attack, env.decay), R(env.sample_rate)))
    THEN "Decay"
  ELSE "Sustain"

determine_state(env, sample_index) ==
  IF sample_index > AsUnsigned(RMul(env.raw_duration_in_seconds, R(env.sample_rate)))
    THEN "Release"
  ELSE IF sample_index < AsUnsigned(RMul(env.attack, R(env.sample_rate)))
    THEN "Attack"
  ELSE IF sample_index < AsUnsigned(RMul(RAdd(env.attack, env.decay), R(env.sample_rate)))
    THEN "Decay"
  ELSE "Sustain"

\* The factor each apply_* computes (and stores in current_factor).
attack_factor(env, current_sample_index) ==
  LET t_a == RMul(env.attack, R(env.sample_rate))
  IN  RDiv(R(current_sample_index), t_a)

decay_factor(env, current_sample_index) ==
  LET t_d == RMul(env.decay, R(env.sample_rate))
      attack_end == RMul(env.attack, R(env.sample_rate))
      decay_start_index == RSub(R(current_sample_index), attack_end)
  IN  RSub(R(1), RMul(RSub(R(1), env.sustain), RDiv(decay_start_index, t_d)))

sustain_factor(env) == env.sustain

release_factor(env, current_sample_index) ==
  LET t_r == RMul(env.release, R(env.sample_rate))
      t_release_at == RMul(env.raw_duration_in_seconds, R(env.sample_rate))
  IN  RMul(env.current_factor,
           RSub(R(1), RDiv(RSub(R(current_sample_index), t_release_at), t_r)))

\* apply_attack, apply_decay, apply_sustain, apply_release: the amplitude
\* returned and the envelope with the factor retained.
apply_in_state(env, sample, current_sample_index, factor) ==
  [env |-> [env EXCEPT !.current_factor = factor], amplitude |-> RMul(sample, factor)]

apply_attack(env, sample, current_sample_index) ==
  apply_in_state(env, sample, current_sample_index,
                 attack_factor(env, current_sample_index))

apply_decay(env, sample, current_sample_index) ==
  apply_in_state(env, sample, current_sample_index,
                 decay_factor(env, current_sample_index))

apply_sustain(env, sample) == apply_in_state(env, sample, 0, sustain_factor(env))

apply_release(env, sample, current_sample_index) ==
  apply_in_state(env, sample, current_sample_index,
                 release_factor(env, current_sample_index))

\* ADSREnvelope::apply
apply(env, sample, current_sample_index) ==
  LET e == [env EXCEPT !.current_state = determine_state(env, current_sample_index)]
  IN  CASE e.current_state = "Attack" -> apply_attack(e, sample, current_sample_index)
        [] e.current_state = "Decay" -> apply_decay(e, sample, current_sample_index)
        [] e.current_state = "Sustain" -> apply_sustain(e, sample)
        [] e.current_state = "Release" -> apply_release(e, sample, current_sample_index)

(***************************************************************************)
(* orchestrator.rs: the sequential strategy                                *)
(***************************************************************************)
OrchestratorNew(bpm, notes, control_points) ==
  IF ~validate_bpm(bpm).ok THEN validate_bpm(bpm)
  ELSE IF ~validate_notes(notes).ok THEN validate_notes(notes)
  ELSE IF control_points.some
    THEN IF ~validate_control_points(control_points.val).ok
           THEN validate_control_points(control_points.val)
         ELSE Ok([strategy |-> "Sequential", variant |-> "Bezier", bpm |-> bpm,
                  notes |-> notes, control_points |-> control_points.val])
  ELSE Ok([strategy |-> "Sequential", variant |-> "Sine", bpm |-> bpm, notes |-> notes])

seconds_per_beat(bpm) == RDiv(R(60), R(bpm))

\* A variant that rounds the sample count up.
samples_per_note_rounded_up(orch, note, sample_rate) ==
  AsUnsigned(RCeil(RMul(RMul(note.beats, seconds_per_beat(orch.bpm)), R(sample_rate))))

\* (duration * sample_rate as f64) as u32 with duration = beats * seconds_per_beat
samples_per_note(orch, note, sample_rate) ==
  AsUnsigned(RMul(RMul(note.beats, seconds_per_beat(orch.bpm)), R(sample_rate)))

\* The body of `for note in &self.notes` of SineOrchestrator::pcm_samples from
\* note k on, `samples` being the vector so far.
RECURSIVE SinePcmFrom(_, _, _, _)
SinePcmFrom(orch, sample_rate, k, samples) ==
  IF k > Len(orch.notes) THEN Ok(samples)
  ELSE LET note == orch.notes[k]
       IN  IF ~frequency(note).ok THEN frequency(note)
           ELSE LET wave == [amplitude |-> note.amplitude,
                             frequency |-> frequency(note).val,
                             sample_rate |-> sample_rate]
                    n == samples_per_note(orch, note, sample_rate)
                IN  SinePcmFrom(orch, sample_rate, k + 1,
                                samples \o [i \in 1..n |-> SinPcmSample(wave, i - 1)])

SineOrchestratorPcmSamples(orch, sample_rate) == SinePcmFrom(orch, sample_rate, 1, <<>>)

RECURSIVE BezierPcmFrom(_, _, _, _)
BezierPcmFrom(orch, sample_rate, k, samples) ==
  IF k > Len(orch.notes) THEN Ok(samples)
  ELSE LET note == orch.notes[k]
       IN  IF ~frequency(note).ok THEN frequency(note)
           ELSE LET made == BezierOscillatorNew(frequency(note).val, note.amplitude,
                                                sample_rate, orch.control_points)
                    n == samples_per_note(orch, note, sample_rate)
                IN  IF ~made.ok THEN made
                    ELSE BezierPcmFrom(orch, sample_rate, k + 1,
                           samples \o [i \in 1..n |-> BezierPcmSample(made.val, i - 1)])

BezierOrchestratorPcmSamples(orch, sample_rate) == BezierPcmFrom(orch, sample_rate, 1, <<>>)

\* Orchestrator::pcm_samples
OrchestratorPcmSamples(orch, sample_rate) ==
  IF orch.variant = "Sine" THEN SineOrchestratorPcmSamples(orch, sample_rate)
  ELSE BezierOrchestratorPcmSamples(orch, sample_rate)

(***************************************************************************)
(* timeline_orchestrator.rs: the timeline strategy                         *)
(***************************************************************************)
CONDENSE_CONSTANT == Rat(9, 10)

TimelineOrchestratorNew(bpm, notes, control_points, adsr) ==
  IF ~validate_bpm(bpm).ok THEN validate_bpm(bpm)
  ELSE IF ~validate_timeline_notes(notes).ok THEN validate_timeline_notes(notes)
  ELSE LET env == IF adsr.some THEN adsr.val ELSE <<R(0), R(0), R(1), R(0)>>
           base == [strategy |-> "Timeline", bpm |-> bpm, notes |-> notes,
                    attack |-> env[1], decay |-> env[2],
                    sustain |-> env[3], release |-> env[4]]
       IN  IF control_points.some
             THEN IF ~validate_control_points(control_points.val).ok
                    THEN validate_control_points(control_points.val)
                  ELSE Ok([variant |-> "Bezier", control_points |-> control_points.val]
                          @@ base)
           ELSE Ok([variant |-> "Sine"] @@ base)

\* f64::tanh, by linear interpolation in a table of tanh(k/4) * 10000 for
\* k = 0..16 (and from tanh(4) to 1 at 20, where f64 tanh is exactly 1), to
\* four decimals toward zero; odd, and the special values as IEEE has them.
TanhTable ==
  <<0, 2449, 4621, 6351, 7616, 8483, 9051, 9414, 9640, 9780, 9866, 9919, 9951,
    9970, 9982, 9989, 9993>>

TanhPos(x) ==
  IF RGe(x, R(20)) THEN R(1)
  ELSE IF RGe(x, R(4))
    THEN Rat(9993 + Trunc(RDiv(RMul(R(7), RSub(x, R(4))), R(16))), 10000)
  ELSE LET k == Trunc(RMul(x, R(4)))
           lo == TanhTable[k + 1]
           hi == TanhTable[k + 2]
           part == RSub(RMul(x, R(4)), R(k))
       IN  Rat(lo + Trunc(RMul(R(hi - lo), part)), 10000)

Tanh(x) ==
  IF IsNaN(x) THEN NaN
  ELSE IF x = PosInf THEN R(1)
  ELSE IF x = NegInf THEN R(-1)
  ELSE IF x[1] < 0 THEN RNeg(TanhPos(RNeg(x)))
  ELSE TanhPos(x)

\* A variant that takes the end of the last note of the list.
total_duration_of_last_note(notes, k, acc) ==
  IF Len(notes) = 0 THEN acc
  ELSE RAdd(notes[Len(notes)].start_time, notes[Len(notes)].duration)

\* max over notes of start_time + duration, from 0.0
RECURSIVE total_duration_in_beats(_, _, _)
total_duration_in_beats(notes, k, acc) ==
  IF k > Len(notes) THEN acc
  ELSE total_duration_in_beats(notes, k + 1,
                               RMax(acc, RAdd(notes[k].start_time, notes[k].duration)))

\* A variant without the ceil: the buffer length truncated.
total_samples_truncated(orch, sample_rate) ==
  AsUnsigned(RMul(RAdd(RMul(total_duration_in_beats(orch.notes, 1, R(0)),
                            seconds_per_beat(orch.bpm)),
                       orch.release),
                  R(sample_rate)))

total_samples(orch, sample_rate) ==
  AsUnsigned(RCeil(RMul(RAdd(RMul(total_duration_in_beats(orch.notes, 1, R(0)),
                                  seconds_per_beat(orch.bpm)),
                             orch.release),
                        R(sample_rate))))

start_sample(orch, note, sample_rate) ==
  AsUnsigned(RMul(RMul(note.start_time, seconds_per_beat(orch.bpm)), R(sample_rate)))

samples_for_this_note(orch, note, sample_rate) ==
  AsUnsigned(RMul(RMul(RAdd(note.duration, orch.release), seconds_per_beat(orch.bpm)),
                  R(sample_rate)))

\* The oscillator of a timeline note: `wave` of the Sine renderer, or the
\* result of BezierOscillator::new of the Bezier renderer.
TimelineWave(orch, note, sample_rate) ==
  IF ~frequency(note).ok THEN frequency(note)
  ELSE IF orch.variant = "Sine"
    THEN Ok([frequency |-> frequency(note).val,
             amplitude |-> RMul(note.amplitude, CONDENSE_CONSTANT),
             sample_rate |-> sample_rate])
  ELSE BezierOscillatorNew(frequency(note).val, RMul(note.amplitude, CONDENSE_CONSTANT),
                           sample_rate, orch.control_points)

WaveSample(orch, wave, i) ==
  IF orch.variant = "Sine" THEN SinSample(wave, i) ELSE BezierSample(wave, i)

\* The renderer's position in TimelineSineOrchestrator::pcm_samples and
\* TimelineBezierOrchestrator::pcm_samples (the two differ in the oscillator
\* alone).  stage "note": at the head of `for note in &self.notes` with note k
\* next; "sample": at the head of `for i in 0..samples_for_this_note`;
\* "returned": the function has returned `result`.
TimelineBegin(orch, sample_rate) ==
  [stage |-> "note", k |-> 1, i |-> 0, wave |-> Unit, envelope |-> Unit,
   pcm_sample_sums |-> [j \in 1..total_samples(orch, sample_rate) |-> R(0)],
   result |-> Unit]

\* The closure of the final map: (sum.tanh() * PCM_BIT_RANGE) as i16
SoftClipPcm(sum) == AsI16(RMul(Tanh(sum), R(PCM_BIT_RANGE)))

\* A variant that makes the envelope once and carries it from note to note.
TimelineEnterNote_shared_envelope(orch, sample_rate, t) ==
  IF t.k > Len(orch.notes)
    THEN [t EXCEPT !.stage = "returned",
            !.result = Ok([j \in 1..Len(t.pcm_sample_sums) |->
                            SoftClipPcm(t.pcm_sample_sums[j])])]
  ELSE LET note == orch.notes[t.k]
           made == TimelineWave(orch, note, sample_rate)
       IN  IF ~made.ok THEN [t EXCEPT !.stage = "returned", !.result = made]
           ELSE [t EXCEPT !.stage = "sample", !.i = 0, !.wave = made.val,
                   !.envelope =
                      IF t.envelope # Unit THEN t.envelope
                      ELSE ADSREnvelopeNew(orch.attack, orch.decay, orch.sustain,
                             orch.release, sample_rate,
                             RMul(note.duration, seconds_per_beat(orch.bpm)))]

\* One iteration head of the note loop: the next note's oscillator (whose
\* construction may fail) and fresh envelope, or, after the last note, the
\* tanh conversion and return.
TimelineEnterNote(orch, sample_rate, t) ==
  IF t.k > Len(orch.notes)
    THEN [t EXCEPT !.stage = "returned",
            !.result = Ok([j \in 1..Len(t.pcm_sample_sums) |->
                            SoftClipPcm(t.pcm_sample_sums[j])])]
  ELSE LET note == orch.notes[t.k]
           made == TimelineWave(orch, note, sample_rate)
       IN  IF ~made.ok THEN [t EXCEPT !.stage = "returned", !.result = made]
           ELSE [t EXCEPT !.stage = "sample", !.i = 0, !.wave = made.val,
                   !.envelope = ADSREnvelopeNew(orch.attack, orch.decay, orch.sustain,
                                  orch.release, sample_rate,
                                  RMul(note.duration, seconds_per_beat(orch.bpm)))]

\* A variant that lengthens the buffer for an index beyond its end.
TimelineSample_growing(orch, sample_rate, t) ==
  LET note == orch.notes[t.k]
      current_sample_index == start_sample(orch, note, sample_rate) + t.i
  IN  IF t.i >= samples_for_this_note(orch, note, sample_rate)
        THEN [t EXCEPT !.stage = "note", !.k = t.k + 1]
      ELSE LET raw_sample == WaveSample(orch, t.wave, t.i)
               applied == apply(t.envelope, raw_sample, t.i)
           IN  IF current_sample_index < Len(t.pcm_sample_sums)
                 THEN [t EXCEPT !.i = t.i + 1, !.envelope = applied.env,
                         !.pcm_sample_sums[current_sample_index + 1] =
                            RAdd(@, applied.amplitude)]
               ELSE [t EXCEPT !.i = t.i + 1, !.envelope = applied.env,
                       !.pcm_sample_sums = Append(@, applied.amplitude)]

\* One iteration of the sample loop of note k (or its end).
TimelineSample(orch, sample_rate, t) ==
  LET note == orch.notes[t.k]
      current_sample_index == start_sample(orch, note, sample_rate) + t.i
  IN  IF t.i >= samples_for_this_note(orch, note, sample_rate)
        THEN [t EXCEPT !.stage = "note", !.k = t.k + 1]
      ELSE IF current_sample_index < Len(t.pcm_sample_sums)
        THEN LET raw_sample == WaveSample(orch, t.wave, t.i)
                 applied == apply(t.envelope, raw_sample, t.i)
             IN  [t EXCEPT !.i = t.i + 1, !.envelope = applied.env,
                     !.pcm_sample_sums[current_sample_index + 1] =
                        RAdd(@, applied.amplitude)]
      ELSE [t EXCEPT !.i = t.i + 1]

TimelineStep(orch, sample_rate, t) ==
  IF t.stage = "note" THEN TimelineEnterNote(orch, sample_rate, t)
  ELSE TimelineSample(orch, sample_rate, t)

RECURSIVE TimelineRun(_, _, _)
TimelineRun(orch, sample_rate, t) ==
  IF t.stage = "returned" THEN t.result
  ELSE TimelineRun(orch, sample_rate, TimelineStep(orch, sample_rate, t))

\* The renderer's position when pcm_samples returns: the accumulator after
\* all notes, and the result.
RECURSIVE TimelineFinish(_, _, _)
TimelineFinish(orch, sample_rate, t) ==
  IF t.stage = "returned" THEN t
  ELSE TimelineFinish(orch, sample_rate, TimelineStep(orch, sample_rate, t))

\* TimelineOrchestrator::pcm_samples
TimelineOrchestratorPcmSamples(orch, sample_rate) ==
  TimelineRun(orch, sample_rate, TimelineBegin(orch, sample_rate))

\* AnyOrchestrator::pcm_samples
AnyPcmSamples(orch, sample_rate) ==
  IF orch.strategy = "Timeline" THEN TimelineOrchestratorPcmSamples(orch, sample_rate)
  ELSE OrchestratorPcmSamples(orch, sample_rate)

(***************************************************************************)
(* wav.rs                                                                  *)
(***************************************************************************)
\* A u32 is kept as two 16-bit limbs <<high, low>>, so that values up to
\* 2^32 - 1 and their overflow can be computed.
Limb == 65536

U32Of(n) == <<n \div Limb, n % Limb>>

\* x * k on u32 for a small k: the wrapped product and whether it overflowed.
U32Mul(x, k) ==
  LET low == x[2] * k
      high == x[1] * k + low \div Limb
  IN  [overflow |-> high >= Limb, val |-> <<high % Limb, low % Limb>>]

\* k + x on u32 for a small k.
U32Add(k, x) ==
  LET low == x[2] + k
      high == x[1] + low \div Limb
  IN  [overflow |-> high >= Limb, val |-> <<high % Limb, low % Limb>>]

\* u32::to_le_bytes, u16::to_le_bytes, i16::to_le_bytes (two's complement)
U16LeBytes(v) == <<v % 256, v \div 256>>

U32LeBytes(x) == U16LeBytes(x[2]) \o U16LeBytes(x[1])

I16LeBytes(v) == U16LeBytes(IF v < 0 THEN v + Limb ELSE v)

RIFF == <<82, 73, 70, 70>>
WAVE == <<87, 65, 86, 69>>
FMT == <<102, 109, 116, 32>>
DATA == <<100, 97, 116, 97>>

num_channels == 1
bits_per_sample == 16
bytes_per_sample == bits_per_sample \div 8
block_align == num_channels * bytes_per_sample

byte_rate(sample_rate) == U32Mul(U32Mul(sample_rate, num_channels).val, bytes_per_sample)

data_size(samples) == U32Mul(U32Of(Len(samples)), bytes_per_sample)

file_size(samples) == U32Add(36, data_size(samples).val)

\* Whether one of the three u32 computations overflows: a panic in a build
\* with overflow checks, a wrapped value in one without.
WavOverflows(samples, sample_rate) ==
  \/ U32Mul(sample_rate, num_channels).overflow
  \/ byte_rate(sample_rate).overflow
  \/ data_size(samples).overflow
  \/ file_size(samples).overflow

\* The arguments of the write_all calls of `write`, in order: thirteen for
\* the header, then one for each sample.
WavChunks(samples, sample_rate) ==
  << RIFF, U32LeBytes(file_size(samples).val), WAVE,
     FMT, U32LeBytes(U32Of(16)), U16LeBytes(1), U16LeBytes(num_channels),
     U32LeBytes(sample_rate), U32LeBytes(byte_rate(sample_rate).val),
     U16LeBytes(block_align), U16LeBytes(bits_per_sample),
     DATA, U32LeBytes(data_size(samples).val) >>
  \o [k \in 1..Len(samples) |-> I16LeBytes(samples[k])]

(***************************************************************************)
(* The state: one run of main (load, render, write), and the harnesses     *)
(* that drive `write`, the timeline renderer and one envelope on their own *)
(***************************************************************************)
VARIABLES
  pc,               \* where the run is
  input,            \* the job: what get_music_input parsed
  orch,             \* the Result of Orchestrator::new / TimelineOrchestrator::new
  rendered,         \* the Result of pcm_samples
  wav,              \* the arguments of wav::write and the write_all calls done
  fs,               \* the output directory and file
  fs0,              \* history: fs when the run started
  overflow_checks,  \* whether the build panics on integer overflow
  tl,               \* the timeline renderer's position (TimelineBegin)
  env               \* one ADSREnvelope and the history of its apply calls

vars == <<pc, input, orch, rendered, wav, fs, fs0, overflow_checks, tl, env>>

(***************************************************************************)
(* Bounded inputs                                                          *)
(***************************************************************************)
MaxNotes == 2

Lists(S, n) == UNION {[1..k -> S] : k \in 0..n}

Bpms == {0, 30, 120}

SampleRates == {3}

PlainNotes ==
  { [id |-> 9, octave |-> 4, beats |-> R(1), amplitude |-> R(1)],
    [id |-> 11, octave |-> 8, beats |-> Rat(3, 2), amplitude |-> Rat(1, 2)],
    [id |-> 0, octave |-> 4, beats |-> Rat(5, 4), amplitude |-> R(0)],
    [id |-> 12, octave |-> 4, beats |-> R(1), amplitude |-> R(1)],
    [id |-> 9, octave |-> 9, beats |-> R(1), amplitude |-> R(1)],
    [id |-> 9, octave |-> 4, beats |-> R(1), amplitude |-> Rat(3, 2)],
    [id |-> 9, octave |-> 4, beats |-> R(1), amplitude |-> Rat(-1, 10)],
    [id |-> 13, octave |-> 9, beats |-> R(1), amplitude |-> R(2)] }

TimelineNotes ==
  { [id |-> 9, octave |-> 4, start_time |-> R(0), duration |-> R(1), amplitude |-> R(1)],
    [id |-> 11, octave |-> 8, start_time |-> Rat(1, 2), duration |-> Rat(3, 2),
     amplitude |-> Rat(1, 2)],
    [id |-> 0, octave |-> 4, start_time |-> R(0), duration |-> Rat(5, 4),
     amplitude |-> Rat(1, 2)],
    [id |-> 12, octave |-> 4, start_time |-> R(0), duration |-> R(1), amplitude |-> R(1)],
    [id |-> 9, octave |-> 9, start_time |-> R(0), duration |-> R(1), amplitude |-> R(1)],
    [id |-> 9, octave |-> 4, start_time |-> R(0), duration |-> R(1),
     amplitude |-> Rat(3, 2)],
    [id |-> 9, octave |-> 4, start_time |-> R(0), duration |-> R(1),
     amplitude |-> Rat(-1, 10)],
    [id |-> 13, octave |-> 9, start_time |-> R(0), duration |-> R(1), amplitude |-> R(2)] }

ControlPointChoices ==
  { None,
    Some(<<R(0), R(1), R(-1), R(0)>>),
    Some(<<R(0), R(1), R(0)>>),
    Some(<<R(0), R(1), R(0), R(0), R(0)>>),
    Some(<<R(0), Rat(3, 2), Rat(-3, 2), R(0)>>),
    Some(<<Rat(-11, 10), R(0), R(0), R(0)>>) }

AdsrChoices == {None, Some(<<Rat(1, 3), Rat(1, 3), Rat(1, 2), Rat(1, 2)>>)}

Inputs ==
  [timeline : {FALSE}, bpm : Bpms, notes : Lists(PlainNotes, MaxNotes),
   control_points : ControlPointChoices, adsr : {None}, sample_rate : SampleRates]
  \cup
  [timeline : {TRUE}, bpm : Bpms, notes : Lists(TimelineNotes, MaxNotes),
   control_points : ControlPointChoices, adsr : AdsrChoices, sample_rate : SampleRates]

\* The output directory may exist, and then the output file may (from an
\* earlier run).
FileSystems ==
  { [dir |-> FALSE, file |-> None],
    [dir |-> TRUE, file |-> None],
    [dir |-> TRUE, file |-> Some(<<82, 73>>)] }

Idle == <<>>

(***************************************************************************)
(* main.rs: load, render, write                                            *)
(***************************************************************************)
Init ==
  /\ pc = "start"
  /\ input \in Inputs
  /\ orch = Idle
  /\ rendered = Idle
  /\ wav = Idle
  /\ fs \in FileSystems
  /\ fs0 = fs
  /\ overflow_checks \in BOOLEAN
  /\ tl = Idle
  /\ env = Idle

\* get_music_input: the constructor the `timeline` field selects; main
\* returns the error of a failed construction.
Construct(in) ==
  IF in.timeline
    THEN TimelineOrchestratorNew(in.bpm, in.notes, in.control_points, in.adsr)
  ELSE OrchestratorNew(in.bpm, in.notes, in.control_points)

Load ==
  /\ pc = "start"
  /\ orch' = Construct(input)
  /\ pc' = IF orch'.ok THEN "loaded" ELSE "exit_err"
  /\ UNCHANGED <<input, rendered, wav, fs, fs0, overflow_checks, tl, env>>

\* orchestrator.pcm_samples(SAMPLE_RATE)?, then the call of wav::write.
Render ==
  /\ pc = "loaded"
  /\ rendered' = AnyPcmSamples(orch.val, input.sample_rate)
  /\ IF rendered'.ok
       THEN /\ pc' = "write"
            /\ wav' = [samples |-> rendered'.val,
                       sample_rate |-> U32Of(input.sample_rate), written |-> 0]
       ELSE /\ pc' = "exit_err"
            /\ wav' = wav
  /\ UNCHANGED <<input, orch, fs, fs0, overflow_checks, tl, env>>

\* fs::create_dir_all(parent)?
CreateDirAll ==
  /\ pc = "write"
  /\ \/ /\ fs' = [fs EXCEPT !.dir = TRUE]
        /\ pc' = "create"
     \/ /\ ~fs.dir
        /\ fs' = fs
        /\ pc' = "exit_err"
  /\ UNCHANGED <<input, orch, rendered, wav, fs0, overflow_checks, tl, env>>

\* File::create(filename)?, which truncates an existing file, and the header
\* fields computed next (lines 19 to 27).
FileCreate ==
  /\ pc = "create"
  /\ \/ /\ fs' = [fs EXCEPT !.file = Some(<<>>)]
        /\ pc' = IF overflow_checks /\ WavOverflows(wav.samples, wav.sample_rate)
                   THEN "panicked" ELSE "write_all"
     \/ /\ fs' = fs
        /\ pc' = "exit_err"
  /\ UNCHANGED <<input, orch, rendered, wav, fs0, overflow_checks, tl, env>>

\* The next file.write_all(..)?: the whole argument is written, or the call
\* fails and `write` returns the error.  After the last one `write` returns
\* Ok and main ends.
WriteAll ==
  /\ pc = "write_all"
  /\ LET chunks == WavChunks(wav.samples, wav.sample_rate)
     IN  \/ /\ fs' = [fs EXCEPT !.file = Some(fs.file.val \o chunks[wav.written + 1])]
            /\ wav' = [wav EXCEPT !.written = wav.written + 1]
            /\ pc' = IF wav'.written = Len(chunks) THEN "done" ELSE "write_all"
         \/ /\ fs' = fs
            /\ wav' = wav
            /\ pc' = "exit_err"
  /\ UNCHANGED <<input, orch, rendered, fs0, overflow_checks, tl, env>>

Next == Load \/ Render \/ CreateDirAll \/ FileCreate \/ WriteAll

Spec == Init /\ [][Next]_vars

(***************************************************************************)
(* Properties of construction and of the whole run                         *)
(***************************************************************************)
\* The input invariants of the data model, read off the job.
BpmViolated == input.bpm = 0
NotesEmpty == Len(input.notes) = 0
IdViolated == \E k \in 1..Len(input.notes) : input.notes[k].id > 11
OctaveViolated == \E k \in 1..Len(input.notes) : input.notes[k].octave > 8
OutsideUnit(a) == a[1] < 0 \/ a[1] > a[2]
AmplitudeViolated == \E k \in 1..Len(input.notes) : OutsideUnit(input.notes[k].amplitude)
PointsViolated ==
  /\ input.control_points.some
  /\ LET p == input.control_points.val
     IN  Len(p) # 4 \/ \E k \in 1..Len(p) : p[k][1] < -p[k][2] \/ p[k][1] > p[k][2]

Violated ==
  <<BpmViolated, NotesEmpty, IdViolated, OctaveViolated, AmplitudeViolated, PointsViolated>>

OnlyViolated(j) == \A i \in 1..6 : Violated[i] <=> i = j

ErrorKinds ==
  <<"InvalidBpm", "EmptyNotes", "InvalidNoteId", "InvalidOctave", "InvalidAmplitude",
    "InvalidControlPoints">>

\* C1: construction of either orchestrator fails exactly when an input
\* invariant is violated (bpm = 0, no notes, a note id > 11, an octave > 8,
\* an amplitude outside [0, 1], control points that are not four values in
\* [-1, 1]); the error returned names an invariant that is violated and
\* carries the offending value; a job that violates one kind of invariant
\* alone gets that kind's error; bpm = 0 always gives InvalidBpm.
C1_ConstructionRejectsInvalid ==
  orch # Idle =>
    /\ orch.ok <=> \A j \in 1..6 : ~Violated[j]
    /\ orch.ok => /\ orch.val.bpm = input.bpm
                  /\ orch.val.notes = input.notes
                  /\ orch.val.strategy = IF input.timeline THEN "Timeline" ELSE "Sequential"
                  /\ orch.val.variant = IF input.control_points.some THEN "Bezier" ELSE "Sine"
    /\ ~orch.ok =>
         /\ \E j \in 1..6 : orch.err[1] = ErrorKinds[j] /\ Violated[j]
         /\ \A j \in 1..6 : OnlyViolated(j) => orch.err[1] = ErrorKinds[j]
         /\ BpmViolated => orch.err = <<"InvalidBpm", 0>>
         /\ orch.err[1] = "InvalidNoteId" =>
              \E k \in 1..Len(input.notes) :
                input.notes[k].id > 11 /\ orch.err[2] = input.notes[k].id
         /\ orch.err[1] = "InvalidOctave" =>
              \E k \in 1..Len(input.notes) :
                input.notes[k].octave > 8 /\ orch.err[2] = input.notes[k].octave
         /\ orch.err[1] = "InvalidAmplitude" =>
              \E k \in 1..Len(input.notes) :
                /\ OutsideUnit(input.notes[k].amplitude)
                /\ orch.err[2] = input.notes[k].amplitude

\* Every kind of rejection and an accepted job of each strategy are reached.
C1_Witness ==
  /\ orch # Idle
  /\ ~orch.ok
  /\ orch.err[1] = "InvalidControlPoints"
  /\ input.timeline
  /\ Len(input.notes) = MaxNotes

\* C2: pcm_samples of a constructed orchestrator (sequential or timeline,
\* sine or shaped) returns Ok with the sample sequence, never an error.
C2_NoErrorMidRender ==
  rendered # Idle => /\ orch.ok
                     /\ rendered.ok
                     /\ pc # "loaded"

C2_Witness ==
  /\ rendered # Idle
  /\ rendered.ok
  /\ Len(rendered.val) > 0
  /\ orch.val.strategy = "Timeline"
  /\ orch.val.variant = "Bezier"
  /\ Len(orch.val.notes) = MaxNotes

\* The complete output file: the 44 header bytes and two bytes a sample.
FileComplete ==
  /\ fs.file.some
  /\ Len(fs.file.val) = 44 + 2 * Len(rendered.val)

\* C3: a run ends either with the complete sample sequence and the complete
\* output file, or with the output file as it was before the run (nothing
\* written), also when a write fails part-way through wav::write.
C3_NoPartialSuccess ==
  /\ pc = "done" => rendered.ok /\ FileComplete
  /\ pc \in {"exit_err", "panicked"} => fs.file = fs0.file

\* floor(beats * 60 / bpm * sample_rate) of note k, in integers.
NoteLength(k) ==
  LET b == input.notes[k].beats
  IN  (b[1] * 60 * input.sample_rate) \div (b[2] * input.bpm)

RECURSIVE LengthBefore(_)
LengthBefore(k) == IF k = 1 THEN 0 ELSE LengthBefore(k - 1) + NoteLength(k - 1)

\* Sample i (from 0) of note k rendered on its own, by the orchestrator's
\* oscillator.
NoteSample(k, i) ==
  LET note == input.notes[k]
      f == RMul(R(440), PowTwelfth((note.id - 9) + 12 * (note.octave - 4)))
  IN  IF orch.val.variant = "Sine"
        THEN SinPcmSample([frequency |-> f, amplitude |-> note.amplitude,
                           sample_rate |-> input.sample_rate], i)
      ELSE BezierPcmSample([frequency |-> f, amplitude |-> note.amplitude,
                            sample_rate |-> input.sample_rate,
                            control_points |-> input.control_points.val], i)

\* C4: the sequential output is as long as the sum over the notes of
\* floor(beats * 60 / bpm * sample_rate), and note k's samples, generated
\* from local index 0, fill the index range right after those of the notes
\* before it.
C4_SequentialLayout ==
  (rendered # Idle /\ rendered.ok /\ ~input.timeline) =>
    /\ Len(rendered.val) = LengthBefore(Len(input.notes) + 1)
    /\ \A k \in 1..Len(input.notes) :
         \A i \in 0..(NoteLength(k) - 1) :
           rendered.val[LengthBefore(k) + i + 1] = NoteSample(k, i)

\* Two notes of different sound, each more than one sample long.
C4_Witness ==
  /\ rendered # Idle
  /\ rendered.ok
  /\ ~input.timeline
  /\ Len(input.notes) = 2
  /\ NoteLength(1) > 1
  /\ NoteLength(2) > 1
  /\ NoteLength(1) # NoteLength(2)
  /\ \E i \in 0..1 : NoteSample(1, i) # NoteSample(2, i) /\ NoteSample(2, i) # 0

\* The case of C5: a timeline job of one note at start_time 0 with no
\* envelope configured, rendered.
SingleNoteNoEnvelope ==
  /\ rendered # Idle
  /\ rendered.ok
  /\ input.timeline
  /\ Len(input.notes) = 1
  /\ input.notes[1].start_time = R(0)
  /\ ~input.adsr.some

\* The sequential job of that note alone, and its output.
TwinNote ==
  [id |-> input.notes[1].id, octave |-> input.notes[1].octave,
   beats |-> input.notes[1].duration, amplitude |-> input.notes[1].amplitude]

TwinOutput ==
  OrchestratorPcmSamples(
    OrchestratorNew(input.bpm, <<TwinNote>>, input.control_points).val,
    input.sample_rate).val

\* The real waveform value of the twin's sample i (from 0), before clamping
\* and conversion.
TwinValue(i) ==
  LET f == RMul(R(440), PowTwelfth((TwinNote.id - 9) + 12 * (TwinNote.octave - 4)))
  IN  IF input.control_points.some
        THEN BezierSample([frequency |-> f, amplitude |-> TwinNote.amplitude,
                           sample_rate |-> input.sample_rate,
                           control_points |-> input.control_points.val], i)
      ELSE SinSample([frequency |-> f, amplitude |-> TwinNote.amplitude,
                      sample_rate |-> input.sample_rate], i)

\* duration * 60 / bpm * sample_rate of the one note, rounded down and up.
OneNoteFloor ==
  LET d == input.notes[1].duration
  IN  (d[1] * 60 * input.sample_rate) \div (d[2] * input.bpm)

OneNoteCeil ==
  LET d == input.notes[1].duration
  IN  -((-(d[1] * 60 * input.sample_rate)) \div (d[2] * input.bpm))

\* C5 as claimed: the timeline output of one note at start_time 0 without an
\* envelope has the length of the sequential output of that note alone and,
\* at every index, the same sample value up to rounding.
C5_TimelineEqualsSequential ==
  SingleNoteNoEnvelope =>
    /\ Len(rendered.val) = Len(TwinOutput)
    /\ \A j \in 1..Len(TwinOutput) : Abs(rendered.val[j] - TwinOutput[j]) <= 1

\* C5 as amended: the sequential output has floor(T) samples and the
\* timeline output ceil(T), T = duration * 60 / bpm * sample_rate (one more,
\* a final 0, when T is not whole); where the sequential sample is
\* trunc(v * 32767) for the waveform value v, the timeline sample is
\* trunc(tanh(0.9 * v) * 32767): of the same sign and of no greater
\* magnitude.
C5_TimelineIsCondensedSequential ==
  SingleNoteNoEnvelope =>
    /\ Len(TwinOutput) = OneNoteFloor
    /\ Len(rendered.val) = OneNoteCeil
    /\ \A j \in 1..Len(rendered.val) :
         IF j <= OneNoteFloor
           THEN /\ rendered.val[j] =
                     AsI16(RMul(Tanh(RMul(Rat(9, 10), TwinValue(j - 1))), R(32767)))
                /\ TwinOutput[j] = AsI16(RMul(TwinValue(j - 1), R(32767)))
                /\ Abs(rendered.val[j]) <= Abs(TwinOutput[j])
                /\ rendered.val[j] * TwinOutput[j] >= 0
         ELSE rendered.val[j] = 0

\* A note whose length is not whole and whose samples differ from the
\* twin's.
C5_Witness ==
  /\ SingleNoteNoEnvelope
  /\ OneNoteCeil = OneNoteFloor + 1
  /\ \E j \in 1..OneNoteFloor :
       rendered.val[j] # 0 /\ Abs(rendered.val[j]) < Abs(TwinOutput[j])

(***************************************************************************)
(* One ADSREnvelope driven on its own: any sequence of apply calls         *)
(***************************************************************************)
MaxIndex == 6
MaxCalls == 3

\* (attack, decay, sustain, release) of the envelope; attack 2 is longer than
\* the note, and 0 durations are those of the default envelope.
EnvelopeChoices ==
  [attack : {R(0), Rat(1, 3), Rat(1, 2), R(2)}, decay : {R(0), Rat(1, 2)},
   sustain : {Rat(1, 2), R(1)}, release : {R(0), Rat(1, 2), R(1)}]

EnvelopeSampleRate == 3
EnvelopeDuration == R(1)
RawSamples == {R(1), Rat(-1, 2)}

\* env: the instance, and as history the number of apply calls, the index,
\* the raw sample and the result of the last one, whether the indices so far
\* never decreased, the call at which the state first was Release, and the
\* factor of the last call that was not in Release.
InitEnv ==
  /\ pc = "envelope"
  /\ \E c \in EnvelopeChoices :
       env = [envelope |-> ADSREnvelopeNew(c.attack, c.decay, c.sustain, c.release,
                                           EnvelopeSampleRate, EnvelopeDuration),
              calls |-> 0, index |-> 0, sample |-> R(0), amplitude |-> R(0),
              nondecreasing |-> TRUE, released_at |-> 0, last_factor |-> R(0)]
  /\ input = Idle /\ orch = Idle /\ rendered = Idle /\ wav = Idle
  /\ fs = Idle /\ fs0 = Idle /\ overflow_checks = FALSE /\ tl = Idle

\* envelope.apply(sample, current_sample_index)
Apply ==
  /\ pc = "envelope"
  /\ env.calls < MaxCalls
  /\ \E n \in 0..MaxIndex, sample \in RawSamples :
       LET applied == apply(env.envelope, sample, n)
       IN  env' = [envelope |-> applied.env, calls |-> env.calls + 1, index |-> n,
                   sample |-> sample, amplitude |-> applied.amplitude,
                   nondecreasing |-> env.nondecreasing /\ (env.calls = 0 \/ n >= env.index),
                   released_at |->
                     IF env.released_at = 0 /\ applied.env.current_state = "Release"
                       THEN env.calls + 1 ELSE env.released_at,
                   last_factor |->
                     IF applied.env.current_state = "Release"
                       THEN env.last_factor ELSE applied.env.current_factor]
  /\ UNCHANGED <<pc, input, orch, rendered, wav, fs, fs0, overflow_checks, tl>>

NextEnv == Apply

SpecEnv == InitEnv /\ [][NextEnv]_vars

\* C6 as stated: on one envelope, over any sequence of apply calls, once the
\* state has been Release it is Release after every later call.
C6_ReleaseIsFinal ==
  env.released_at > 0 => env.envelope.current_state = "Release"

\* C6, amended: over a sequence of apply calls whose sample indices never
\* decrease, once the state has been Release it is Release after every later
\* call.
C6_ReleaseIsFinalForward ==
  (env.released_at > 0 /\ env.nondecreasing) => env.envelope.current_state = "Release"

\* A call after the one that released, the indices not having decreased.
C6_Witness ==
  /\ env.released_at > 0
  /\ env.calls > env.released_at
  /\ env.nondecreasing
  /\ env.index > 0

\* The envelope's times in samples.
EnvAttackSamples == RMul(env.envelope.attack, R(env.envelope.sample_rate))

\* The last call was the first sample classified as Decay.
AtFirstDecaySample ==
  /\ env.calls > 0
  /\ env.envelope.current_state = "Decay"
  /\ env.index = AsUnsigned(EnvAttackSamples)

UsedFactor(f) ==
  env.envelope.current_factor = f /\ env.amplitude = RMul(env.sample, f)

C7_AttackStartsAtZero ==
  (env.calls > 0 /\ env.envelope.current_state = "Attack" /\ env.index = 0)
    => UsedFactor(R(0))

C7_SustainIsLevel ==
  (env.calls > 0 /\ env.envelope.current_state = "Sustain")
    => UsedFactor(env.envelope.sustain)

\* C7: index 0 in Attack uses factor 0, the first sample classified as Decay
\* uses factor exactly 1, and every Sustain sample uses the sustain level.
C7_Landmarks ==
  /\ C7_AttackStartsAtZero
  /\ AtFirstDecaySample => UsedFactor(R(1))
  /\ C7_SustainIsLevel

(***************************************************************************)
(* The timeline renderer taken one loop iteration at a time                *)
(***************************************************************************)
TimelineSampleRate == 3

\* Notes of one pitch that follow or overlap each other.
TimelineJobNotes ==
  { [id |-> 9, octave |-> 4, start_time |-> R(0), duration |-> R(1), amplitude |-> R(1)],
    [id |-> 9, octave |-> 4, start_time |-> R(1), duration |-> R(1), amplitude |-> R(1)],
    [id |-> 4, octave |-> 4, start_time |-> Rat(1, 2), duration |-> Rat(1, 2),
     amplitude |-> Rat(1, 2)] }

TimelineJobAdsr ==
  { None,
    Some(<<R(0), R(0), R(1), Rat(1, 2)>>),
    Some(<<Rat(1, 3), Rat(1, 3), Rat(1, 2), R(1)>>),
    Some(<<Rat(1, 2), Rat(1, 2), Rat(1, 2), R(0)>>) }

TimelineJobs ==
  [timeline : {TRUE}, bpm : {30, 60, 120},
   notes : Lists(TimelineJobNotes, MaxNotes) \ {<<>>},
   control_points : {None}, adsr : TimelineJobAdsr, sample_rate : {TimelineSampleRate}]

\* pcm_samples has been called on a constructed orchestrator and is at the
\* head of its note loop.
InitTimeline ==
  /\ pc = "render"
  /\ input \in TimelineJobs
  /\ orch = Construct(input)
  /\ tl = TimelineBegin(orch.val, input.sample_rate)
  /\ rendered = Idle /\ wav = Idle /\ fs = Idle /\ fs0 = Idle
  /\ overflow_checks = FALSE /\ env = Idle

\* The head of `for note in &self.notes`; after the last note the function
\* returns.
EnterNote ==
  /\ pc = "render"
  /\ tl.stage = "note"
  /\ tl' = TimelineEnterNote(orch.val, input.sample_rate, tl)
  /\ IF tl'.stage = "returned"
       THEN pc' = "rendered" /\ rendered' = tl'.result
       ELSE pc' = pc /\ rendered' = rendered
  /\ UNCHANGED <<input, orch, wav, fs, fs0, overflow_checks, env>>

\* One iteration of `for i in 0..samples_for_this_note`, or the loop's end.
Sample ==
  /\ pc = "render"
  /\ tl.stage = "sample"
  /\ tl' = TimelineSample(orch.val, input.sample_rate, tl)
  /\ UNCHANGED <<pc, input, orch, rendered, wav, fs, fs0, overflow_checks, env>>

NextTimeline == EnterNote \/ Sample

SpecTimeline == InitTimeline /\ [][NextTimeline]_vars

\* C8: while the renderer goes through a note's samples, every factor the
\* envelope computes in Release is at most the factor before it (the level at
\* release start, then the previous Release factor) and is not negative.
C8_ReleaseDecaysToZero ==
  [][(tl.stage = "sample" /\ tl'.stage = "sample"
      /\ tl'.envelope.current_state = "Release")
     => /\ RLe(tl'.envelope.current_factor, tl.envelope.current_factor)
        /\ RGe(tl'.envelope.current_factor, R(0))]_vars

(***************************************************************************)
(* The two conversions to 16 bits, driven on their own                     *)
(***************************************************************************)
MaxPcmIndex == 4
MaxOverlap == 4

\* Oscillators whose waveform reaches its peaks on a sample, with amplitudes
\* inside and outside [0, 1].
Oscillators ==
  [amplitude : {R(0), Rat(1, 2), R(1), Rat(3, 2), R(-2), R(1000)},
   frequency : {R(1), Rat(5, 3)}, sample_rate : {4}]

\* What one note may add to a slot of the accumulator.
Contributions == {Rat(9, 10), Rat(-9, 10), Rat(1, 3), R(-25), R(50), PosInf, NegInf}

\* input: a SinOscillator; tl: one slot of pcm_sample_sums and the number of
\* notes added to it; rendered: the last conversion and its result.
InitPcm ==
  /\ pc = "convert"
  /\ input \in Oscillators
  /\ tl = [sum |-> R(0), notes |-> 0]
  /\ rendered = Idle
  /\ orch = Idle /\ wav = Idle /\ fs = Idle /\ fs0 = Idle
  /\ overflow_checks = FALSE /\ env = Idle

\* wave.pcm_sample(i)
PcmSample ==
  /\ pc = "convert"
  /\ \E i \in 0..MaxPcmIndex :
       rendered' = [conversion |-> "pcm_sample", value |-> SinSample(input, i),
                    pcm |-> SinPcmSample(input, i)]
  /\ UNCHANGED <<pc, input, orch, wav, fs, fs0, overflow_checks, tl, env>>

\* pcm_sample_sums[current_sample_index] += processed_sample
Accumulate ==
  /\ pc = "convert"
  /\ tl.notes < MaxOverlap
  /\ \E c \in Contributions : tl' = [sum |-> RAdd(tl.sum, c), notes |-> tl.notes + 1]
  /\ UNCHANGED <<pc, input, orch, rendered, wav, fs, fs0, overflow_checks, env>>

\* The final map over pcm_sample_sums, for the slot.
SoftClip ==
  /\ pc = "convert"
  /\ rendered' = [conversion |-> "soft_clip", value |-> tl.sum, pcm |-> SoftClipPcm(tl.sum)]
  /\ UNCHANGED <<pc, input, orch, wav, fs, fs0, overflow_checks, tl, env>>

NextPcm == PcmSample \/ Accumulate \/ SoftClip

SpecPcm == InitPcm /\ [][NextPcm]_vars

\* C9: every 16-bit sample either conversion produces is within
\* [-32767, 32767]; pcm_sample gives the truncated product of 32767 and the
\* waveform value clamped to [-1, 1], so a value beyond the range gives the
\* end of the range and not a wrapped value, and the soft clip of a sum has
\* the sign of the sum.
C9_PcmInRange ==
  rendered # Idle =>
    /\ rendered.pcm \in -32767..32767
    /\ rendered.conversion = "pcm_sample" =>
         /\ RGe(rendered.value, R(1)) => rendered.pcm = 32767
         /\ RLe(rendered.value, R(-1)) => rendered.pcm = -32767
         /\ (RGt(rendered.value, R(-1)) /\ RLt(rendered.value, R(1))) =>
              rendered.pcm = Trunc(RMul(rendered.value, R(32767)))
    /\ rendered.conversion = "soft_clip" =>
         /\ RGt(rendered.value, R(0)) => rendered.pcm >= 0
         /\ RLt(rendered.value, R(0)) => rendered.pcm <= 0
         /\ RGe(rendered.value, R(20)) => rendered.pcm = 32767
         /\ RLe(rendered.value, R(-20)) => rendered.pcm = -32767

\* A waveform value below -1 has been converted.
C9_Witness ==
  /\ rendered # Idle
  /\ rendered.conversion = "pcm_sample"
  /\ RLt(rendered.value, R(-1))
  /\ rendered.pcm = -32767

(***************************************************************************)
(* wav::write called on its own                                            *)
(***************************************************************************)
MaxWavSamples == 2

WavSampleValues == {-32768, -1, 0, 1, 256, 32767}

\* 44100, the largest rate whose double fits 32 bits, and 2^31.
WavSampleRates == {<<0, 44100>>, <<32767, 65535>>, <<32768, 0>>}

InitWav ==
  /\ pc = "write"
  /\ wav \in [samples : Lists(WavSampleValues, MaxWavSamples),
               sample_rate : WavSampleRates, written : {0}]
  /\ fs \in FileSystems
  /\ fs0 = fs
  /\ overflow_checks \in BOOLEAN
  /\ input = Idle /\ orch = Idle /\ rendered = Idle /\ tl = Idle /\ env = Idle

NextWav == CreateDirAll \/ FileCreate \/ WriteAll

SpecWav == InitWav /\ [][NextWav]_vars

\* Reading the file back: the bytes from offset `at` (counted from 0), and
\* little-endian fields of 16 and 32 bits, the latter as two 16-bit halves.
FileBytes == fs.file.val
BytesAt(at, n) == SubSeq(FileBytes, at + 1, at + n)
LeU16At(at) == FileBytes[at + 1] + 256 * FileBytes[at + 2]
LeU32At(at) == <<LeU16At(at + 2), LeU16At(at)>>
LeI16At(at) == IF LeU16At(at) >= 32768 THEN LeU16At(at) - 65536 ELSE LeU16At(at)

\* x = 2 * y for a 32-bit field x read back and a u32 y, without overflow.
IsTwice(x, y) ==
  /\ x[2] % 2 = 0
  /\ y = <<x[1] \div 2, (x[2] + (x[1] % 2) * 65536) \div 2>>

\* x = k + y for a 32-bit field x read back and a small y.
IsSmall(x, n) == x = <<0, n>>

\* C10: when write has returned Ok for N samples at rate R, the file is 44
\* header bytes and 2N data bytes; the header reads back as RIFF, total size
\* 36 + 2N, WAVE, fmt, 16, PCM tag 1, 1 channel, rate R, byte rate 2R, block
\* align 2, 16 bits, data, data size 2N, little-endian, and sample k is at
\* bytes 44 + 2k and 45 + 2k.
C10_ContainerRoundTrip ==
  pc = "done" =>
    LET N == Len(wav.samples)
    IN  /\ Len(FileBytes) = 44 + 2 * N
        /\ BytesAt(0, 4) = <<82, 73, 70, 70>>
        /\ IsSmall(LeU32At(4), 36 + 2 * N)
        /\ BytesAt(8, 4) = <<87, 65, 86, 69>>
        /\ BytesAt(12, 4) = <<102, 109, 116, 32>>
        /\ IsSmall(LeU32At(16), 16)
        /\ LeU16At(20) = 1
        /\ LeU16At(22) = 1
        /\ LeU32At(24) = wav.sample_rate
        /\ IsTwice(LeU32At(28), wav.sample_rate)
        /\ LeU16At(32) = 2
        /\ LeU16At(34) = 16
        /\ BytesAt(36, 4) = <<100, 97, 116, 97>>
        /\ IsSmall(LeU32At(40), 2 * N)
        /\ \A k \in 0..(N - 1) : LeI16At(44 + 2 * k) = wav.samples[k + 1]

(***************************************************************************)
(* State selection and the release ramp of one envelope                    *)
(***************************************************************************)
\* A duration in seconds as a whole number of samples of the envelope.
WholeSamples(seconds) ==
  LET x == RMul(seconds, R(env.envelope.sample_rate)) IN x[1] \div x[2]

\* C11: after apply at index n the state is Release if n > T, otherwise
\* Attack if n < t_a, otherwise Decay if n < t_a + t_d, otherwise Sustain,
\* where T, t_a and t_a + t_d are the nominal duration, the attack and attack
\* plus decay in whole samples; Release has priority over Attack and Decay.
C11_StateSelection ==
  env.calls > 0 =>
    LET n == env.index
        T == WholeSamples(env.envelope.raw_duration_in_seconds)
        t_a == WholeSamples(env.envelope.attack)
        t_ad == WholeSamples(RAdd(env.envelope.attack, env.envelope.decay))
    IN  /\ n > T => env.envelope.current_state = "Release"
        /\ (n <= T /\ n < t_a) => env.envelope.current_state = "Attack"
        /\ (n <= T /\ n >= t_a /\ n < t_ad) => env.envelope.current_state = "Decay"
        /\ (n <= T /\ n >= t_ad) => env.envelope.current_state = "Sustain"

\* A note shorter than its attack: Release at an index below t_a.
C11_Witness ==
  /\ env.calls > 0
  /\ env.envelope.current_state = "Release"
  /\ env.index < WholeSamples(env.envelope.attack)

\* C12: at every Release sample n the factor is
\* last_factor * (1 - (n - T) / t_r), last_factor being the factor of the last
\* sample that was not in Release.
C12_ReleaseIsLinearRamp ==
  (env.calls > 0 /\ env.envelope.current_state = "Release") =>
    LET t_r == RMul(env.envelope.release, R(env.envelope.sample_rate))
        T == RMul(env.envelope.raw_duration_in_seconds, R(env.envelope.sample_rate))
    IN  env.envelope.current_factor =
          RMul(env.last_factor, RSub(R(1), RDiv(RSub(R(env.index), T), t_r)))

(***************************************************************************)
(* The timeline render as a whole                                          *)
(***************************************************************************)
\* The end of note k of the job in beats, and the latest end.
NoteEnd(k) == RAdd(input.notes[k].start_time, input.notes[k].duration)

LatestEnd ==
  CHOOSE e \in {NoteEnd(k) : k \in 1..Len(input.notes)} :
    \A k \in 1..Len(input.notes) : RLe(NoteEnd(k), e)

\* The release of the job's envelope in seconds (0 without an envelope).
JobRelease == IF input.adsr.some THEN input.adsr.val[4] ELSE R(0)

\* (latest end * 60 / bpm + release) * sample_rate, in samples.
BufferSpan ==
  RMul(RAdd(RDiv(RMul(LatestEnd, R(60)), R(input.bpm)), JobRelease), R(input.sample_rate))

\* C13: the output of the timeline strategy has length
\* ceil((max over notes of (start_time + duration) * 60 / bpm + release) *
\* sample_rate), whatever the order and the number of the notes.
C13_TimelineLength ==
  pc = "rendered" =>
    /\ rendered.ok
    /\ Len(rendered.val) = (BufferSpan[1] + BufferSpan[2] - 1) \div BufferSpan[2]

\* Two notes of which the first ends last, and a span that is not a whole
\* number of samples.
C13_Witness ==
  /\ pc = "rendered"
  /\ Len(input.notes) = 2
  /\ RGt(NoteEnd(1), NoteEnd(2))
  /\ BufferSpan[2] # 1

\* The first global index of note k of the job and the number of local
\* indices the renderer goes through for it, in whole samples.
NoteStart(k) ==
  LET x == RDiv(RMul(RMul(input.notes[k].start_time, R(60)), R(input.sample_rate)),
                R(input.bpm))
  IN  x[1] \div x[2]

NoteCount(k) ==
  LET x == RDiv(RMul(RMul(RAdd(input.notes[k].duration, JobRelease), R(60)),
                     R(input.sample_rate)),
                R(input.bpm))
  IN  x[1] \div x[2]

\* Slot j of the buffer (from 1) is within the span of some note.
Covered(j) ==
  \E k \in 1..Len(input.notes) : NoteStart(k) < j /\ j <= NoteStart(k) + NoteCount(k)

\* C14: a step of the renderer never changes the length of the accumulator;
\* a step of the sample loop of note k at local index i changes at most the
\* slot of global index start_sample + i, and none when that index is not
\* below the length (the loop goes on, no error is returned); slots that no
\* note covers are 0.
C14_AccumulationInBounds ==
  [][pc = "render" =>
      /\ Len(tl'.pcm_sample_sums) = Len(tl.pcm_sample_sums)
      /\ tl.stage = "sample" =>
           LET g == NoteStart(tl.k) + tl.i
           IN  /\ \A j \in 1..Len(tl.pcm_sample_sums) :
                    tl'.pcm_sample_sums[j] # tl.pcm_sample_sums[j] => j = g + 1
               /\ g >= Len(tl.pcm_sample_sums) =>
                    /\ tl'.pcm_sample_sums = tl.pcm_sample_sums
                    /\ tl'.stage # "returned"
      /\ tl.stage = "note" => tl'.pcm_sample_sums = tl.pcm_sample_sums
      /\ tl'.stage = "returned" => tl'.result.ok
      /\ \A j \in 1..Len(tl'.pcm_sample_sums) :
           ~Covered(j) => tl'.pcm_sample_sums[j] = R(0)]_vars

\* The sample loop has passed a local index whose global index is beyond the
\* buffer, and a slot before the note's start is not covered.
C14_Witness ==
  /\ pc = "render"
  /\ tl.stage = "sample"
  /\ tl.i > 0
  /\ NoteStart(tl.k) + tl.i - 1 >= Len(tl.pcm_sample_sums)
  /\ \E j \in 1..Len(tl.pcm_sample_sums) : ~Covered(j)

\* The orders of a list of n notes.
Orders(n) == {f \in [1..n -> 1..n] : \A a, b \in 1..n : f[a] = f[b] => a = b}

\* The accumulator after rendering the job's notes in the order f.
AccumulatorInOrder(f) ==
  LET reordered == [orch.val EXCEPT !.notes = [k \in 1..Len(input.notes) |->
                                                 input.notes[f[k]]]]
  IN  TimelineFinish(reordered, input.sample_rate,
                     TimelineBegin(reordered, input.sample_rate)).pcm_sample_sums

\* C15: every note starts with a fresh envelope (state Attack, retained
\* factor 0, the note's own duration), and the accumulator after all notes
\* is the same for every order of the note list.
C15_NotesAreIndependent ==
  /\ (pc = "render" /\ tl.stage = "sample" /\ tl.i = 0) =>
       /\ tl.envelope.current_state = "Attack"
       /\ tl.envelope.current_factor = R(0)
       /\ tl.envelope.raw_duration_in_seconds =
            RDiv(RMul(input.notes[tl.k].duration, R(60)), R(input.bpm))
  /\ pc = "rendered" =>
       \A f \in Orders(Len(input.notes)) : AccumulatorInOrder(f) = tl.pcm_sample_sums

\* Two different notes that overlap, rendered with an envelope.
C15_Witness ==
  /\ pc = "rendered"
  /\ Len(input.notes) = 2
  /\ input.notes[1] # input.notes[2]
  /\ input.adsr.some
  /\ NoteStart(2) < NoteStart(1) + NoteCount(1)
  /\ NoteStart(1) < NoteStart(2) + NoteCount(2)
  /\ \E j \in 1..Len(tl.pcm_sample_sums) : tl.pcm_sample_sums[j] # R(0)

\* C16: every factor the envelope computes during a timeline render is a
\* number within [0, 1], whatever the envelope parameters (attack, decay,
\* release >= 0, sustain in [0, 1]).
C16_FactorInUnitRange ==
  (pc = "render" /\ tl.stage = "sample") =>
    /\ IsFinite(tl.envelope.current_factor)
    /\ RGe(tl.envelope.current_factor, R(0))
    /\ RLe(tl.envelope.current_factor, R(1))

\* C17: every local index of a note's rendered span has its global index
\* inside the buffer (nothing is dropped), and with a release configured the
\* envelope factor is 0 when the note's last sample has been rendered.
C17_SpanFitsAndReleaseCompletes ==
  (pc = "render" /\ tl.stage = "sample") =>
    /\ tl.i < NoteCount(tl.k) => NoteStart(tl.k) + tl.i < Len(tl.pcm_sample_sums)
    /\ (tl.i = NoteCount(tl.k) /\ RGt(JobRelease, R(0))) =>
         tl.envelope.current_factor = R(0)

=============================================================================
